---- MODULE Spec2Model ----
(***************************************************************************)
(* The rule-checking visitor of nasa-static-analyzer (src/src/main.rs).    *)
(*                                                                         *)
(* StaticAnalyzer walks a lang_c syntax tree depth first.  The recursion   *)
(* of the visitor is kept as an explicit stack: every visit_* handler of   *)
(* `impl Visit for StaticAnalyzer` is one action for the part that runs    *)
(* before the walk over the children (checks, symbol table, traversal      *)
(* state, then the push), and the part after the walk is the Return*       *)
(* action that pops the frame.  println! output is the sequence `diags`.   *)
(*                                                                         *)
(* The tree is kept in pre-order; a node carries its depth.  Nodes whose   *)
(* handler is lang_c's default (it only walks the children) are left out   *)
(* of the tree, except the translation unit at the root.                   *)
(***************************************************************************)
EXTENDS Naturals, Sequences, FiniteSets, TLC

VARIABLES
    rule_set,                    \* StaticAnalyzer.rule_set
    symbol_table,                \* StaticAnalyzer.symbol_table
    current_function_type_cast,  \* StaticAnalyzer.current_function_type_cast
    current_function,            \* StaticAnalyzer.current_function
    tree,                        \* ast.unit, in pre-order
    stack,                       \* the visit_* calls in progress
    pos,                         \* the next node of the pre-order
    visited,                     \* the nodes whose handler was entered, in order
    diags                        \* the diagnostics printed, in order

vars == <<rule_set, symbol_table, current_function_type_cast, current_function,
          tree, stack, pos, visited, diags>>

(***************************************************************************)
(* Bounds of the model.                                                    *)
(***************************************************************************)
MaxItems == 2      \* external declarations of a translation unit

(***************************************************************************)
(* Values.                                                                 *)
(***************************************************************************)
None == "None"     \* Option::None

\* lang_c::ast::TypeSpecifier values among the specifiers of the model; every
\* other specifier ("Static", "Const") is a storage class or a qualifier.
TypeSpecifiers == {"Int", "Void", "Char", "Enum"}

Rules == {"restrict_goto", "restrict_setjmp", "restrict_longjmp",
          "restrict_recursion", "fixed_loop_bounds",
          "restrict_heap_allocation", "restrict_function_size",
          "check_return_value"}

RuleSet == [Rules -> BOOLEAN]

heap_functions == {"malloc", "calloc", "realloc", "free"}

FunctionSizeLimit == 60

RelationalOperators == {"Less", "LessOrEqual", "Greater", "GreaterOrEqual",
                        "Equals"}

(***************************************************************************)
(* The syntax tree.  A node is a record; the fields a kind does not have    *)
(* hold the defaults below.                                                *)
(*   specifiers   FunctionDefinition.specifiers, Declaration.specifiers,   *)
(*                CastExpression.type_name.specifiers                      *)
(*   declarators  Declaration.declarators (their declarator), or the one   *)
(*                declarator of a FunctionDefinition                       *)
(*   callee       CallExpression.callee                                    *)
(*   cond         WhileStatement.expression                                *)
(*   variant      the variant of a Statement                               *)
(*   lines        end line - start line + 1 of a FunctionDefinition        *)
(***************************************************************************)
NoCallee == [kind |-> None, name |-> None]

NoCond == [kind |-> None, operator |-> None, lhs |-> None, rhs |-> None]

Declarator(kind, name, derived) == [kind |-> kind, name |-> name, derived |-> derived]

Node(kind, specifiers, declarators, callee, cond, variant, lines) ==
    [kind |-> kind, depth |-> 0, specifiers |-> specifiers,
     declarators |-> declarators, callee |-> callee, cond |-> cond,
     variant |-> variant, lines |-> lines]

TranslationUnit == Node("TranslationUnit", <<>>, <<>>, NoCallee, NoCond, None, 0)

FunctionDefinition(specifiers, declarator, lines) ==
    Node("FunctionDefinition", specifiers, <<declarator>>, NoCallee, NoCond, None, lines)

Declaration(specifiers, declarators) ==
    Node("Declaration", specifiers, declarators, NoCallee, NoCond, None, 0)

Statement(variant) == Node("Statement", <<>>, <<>>, NoCallee, NoCond, variant, 0)

WhileStatement(cond) == Node("WhileStatement", <<>>, <<>>, NoCallee, cond, None, 0)

CallExpression(kind, name) ==
    Node("CallExpression", <<>>, <<>>, [kind |-> kind, name |-> name], NoCond, None, 0)

CastExpression(specifiers) ==
    Node("CastExpression", specifiers, <<>>, NoCallee, NoCond, None, 0)

Expression == Node("Expression", <<>>, <<>>, NoCallee, NoCond, None, 0)

BinaryOperator(operator, lhs, rhs) ==
    [kind |-> "BinaryOperator", operator |-> operator, lhs |-> lhs, rhs |-> rhs]

\* The first node after the subtree of node n.
RECURSIVE SubtreeEndFrom(_, _, _)
SubtreeEndFrom(t, n, m) ==
    IF m > Len(t) \/ t[m].depth <= t[n].depth THEN m ELSE SubtreeEndFrom(t, n, m + 1)

SubtreeEnd(t, n) == SubtreeEndFrom(t, n, n + 1)

\* The ancestors of node n.
Ancestors(t, n) == {a \in 1..(n - 1) : t[a].depth < t[n].depth /\ SubtreeEnd(t, a) > n}

(***************************************************************************)
(* The analyzer.  Its operations take and give the whole state as a record *)
(* with the variables' names.                                              *)
(***************************************************************************)
Diag(n, rule) == [node |-> n, rule |-> rule]

Symbol(name, return_type) ==
    [name |-> name, symbol_type |-> [kind |-> "Function", return_type |-> return_type]]

\* StaticAnalyzer::new, and main's call of it
new(rs, ast) ==
    [rule_set |-> rs, symbol_table |-> <<>>, current_function_type_cast |-> None,
     current_function |-> None, tree |-> ast, stack |-> <<>>, pos |-> 1,
     visited |-> <<>>, diags |-> <<>>]

\* HashMap::entry(key).or_insert(value): an entry is never overwritten
insert_keeps_first(table, key, value) ==
    [k \in DOMAIN table \cup {key} |-> IF k \in DOMAIN table THEN table[k] ELSE value]

\* HashMap::insert
insert(table, key, value) ==
    [k \in DOMAIN table \cup {key} |-> IF k = key THEN value ELSE table[k]]

\* the return type read from a specifier list
return_type_of(specifiers) ==
    IF Len(specifiers) = 1 /\ specifiers[1] \in TypeSpecifiers
    THEN specifiers[1] ELSE "Void"

check_goto(s, n) ==
    IF s.tree[n].variant = "Goto" THEN <<Diag(n, "restrict_goto")>> ELSE <<>>

check_setjmp(s, n) ==
    IF s.tree[n].callee.kind = "Identifier" /\ s.tree[n].callee.name = "setjmp"
    THEN <<Diag(n, "restrict_setjmp")>> ELSE <<>>

check_longjmp(s, n) ==
    IF s.tree[n].callee.kind = "Identifier" /\ s.tree[n].callee.name = "longjmp"
    THEN <<Diag(n, "restrict_longjmp")>> ELSE <<>>

set_current_function(s, n) ==
    IF s.tree[n].declarators[1].kind = "Identifier"
    THEN [s EXCEPT !.current_function = s.tree[n].declarators[1].name]
    ELSE s

check_recursion(s, n) ==
    IF /\ s.tree[n].callee.kind = "Identifier"
       /\ s.current_function # None
       /\ s.tree[n].callee.name = s.current_function
    THEN <<Diag(n, "restrict_recursion")>> ELSE <<>>

check_while_loop_bounds(s, n) ==
    LET e == s.tree[n].cond IN
    IF /\ e.kind = "BinaryOperator"
       /\ e.operator \in RelationalOperators
       /\ (e.lhs = "Constant" \/ e.rhs = "Constant")
    THEN <<>> ELSE <<Diag(n, "fixed_loop_bounds")>>

check_heap_usage(s, n) ==
    IF s.tree[n].callee.kind = "Identifier" /\ s.tree[n].callee.name \in heap_functions
    THEN <<Diag(n, "restrict_heap_allocation")>> ELSE <<>>

check_function_size(s, n) ==
    IF s.tree[n].lines > FunctionSizeLimit
    THEN <<Diag(n, "restrict_function_size")>> ELSE <<>>

check_return_value(s, n) ==
    LET callee == s.tree[n].callee IN
    IF /\ callee.kind = "Identifier"
       /\ callee.name \in DOMAIN s.symbol_table
       /\ s.symbol_table[callee.name].symbol_type.kind = "Function"
       /\ s.symbol_table[callee.name].symbol_type.return_type # "Void"
       /\ s.current_function_type_cast = None
    THEN <<Diag(n, "check_return_value")>> ELSE <<>>

\* The walks over the declaration's children that add_function_to_symbol_table
\* makes itself: one, by its call of lang_c's visit_declaration, when the
\* declaration has no declarator.
extra_walks(s, n) ==
    IF s.tree[n].declarators = <<>> THEN 1 ELSE 0

add_function_to_symbol_table(s, n) ==
    LET d == s.tree[n].declarators IN
    IF d = <<>> THEN s
    ELSE IF /\ d[1].derived # <<>>
            /\ d[1].derived[1] = "KRFunction"
            /\ d[1].kind = "Identifier"
         THEN [s EXCEPT !.symbol_table =
                  insert(@, d[1].name, Symbol(d[1].name, return_type_of(s.tree[n].specifiers)))]
         ELSE s

\* a handler's call of lang_c's walk over the children of node n
walk(s, n, walks) ==
    [s EXCEPT !.stack = Append(@, [node |-> n, walks |-> walks]), !.pos = n + 1]

emit(s, ds) == [s EXCEPT !.diags = @ \o ds]

enter(s) == [s EXCEPT !.visited = Append(@, s.pos)]

when(toggle, ds) == IF toggle THEN ds ELSE <<>>

\* the return of a handler to its caller
return(s) == [s EXCEPT !.stack = SubSeq(@, 1, Len(@) - 1)]

(***************************************************************************)
(* The handlers of `impl Visit for StaticAnalyzer`, up to their walk over  *)
(* the children, and what they do after it.  The node is s.tree[s.pos].    *)
(***************************************************************************)
\* Visit::visit_translation_unit (lang_c's default), called by main
visit_translation_unit(s) == walk(enter(s), s.pos, 1)

visit_expression(s) == walk(enter(s), s.pos, 1)

visit_declaration(s) ==
    LET n == s.pos
        crv == s.rule_set["check_return_value"]
        s1 == IF crv THEN add_function_to_symbol_table(s, n) ELSE s
    IN  walk(enter(s1), n, 1 + (IF crv THEN extra_walks(s, n) ELSE 0))

\* the second walk over the children of a declaration: the first was the one
\* of add_function_to_symbol_table, this one is visit_declaration's own
walk_declaration_again(s) ==
    LET top == s.stack[Len(s.stack)] IN
    [s EXCEPT !.stack[Len(s.stack)].walks = top.walks - 1, !.pos = top.node + 1]

visit_statement(s) ==
    LET n == s.pos
        s1 == emit(s, when(s.rule_set["restrict_goto"], check_goto(s, n)))
    IN  walk(enter(s1), n, 1)

visit_function_definition(s) ==
    LET n == s.pos
        d == s.tree[n].declarators[1]
        s1 == IF d.kind = "Identifier"
              THEN [s EXCEPT !.symbol_table =
                       insert(@, d.name, Symbol(d.name, return_type_of(s.tree[n].specifiers)))]
              ELSE s
        s2 == IF s.rule_set["restrict_recursion"] THEN set_current_function(s1, n) ELSE s1
        s3 == emit(s2, when(s.rule_set["restrict_function_size"], check_function_size(s2, n)))
    IN  walk(enter(s3), n, 1)

\* visit_function_definition without its last line
return_function_definition_keeps_name(s) == return(s)

return_function_definition(s) == [return(s) EXCEPT !.current_function = None]

visit_cast_expression(s) ==
    LET n == s.pos
        specifiers == s.tree[n].specifiers
    IN  IF specifiers = <<>>
        THEN [enter(s) EXCEPT !.pos = SubtreeEnd(s.tree, n)]
        ELSE LET s1 == IF specifiers[1] \in TypeSpecifiers
                       THEN [s EXCEPT !.current_function_type_cast = specifiers[1]]
                       ELSE s
             IN  walk(enter(s1), n, 1)

return_cast_expression(s) == [return(s) EXCEPT !.current_function_type_cast = None]

visit_call_expression(s) ==
    LET n == s.pos
        rs == s.rule_set
        ds == when(rs["restrict_recursion"], check_recursion(s, n))
              \o when(rs["restrict_setjmp"], check_setjmp(s, n))
              \o when(rs["restrict_longjmp"], check_longjmp(s, n))
              \o when(rs["restrict_heap_allocation"], check_heap_usage(s, n))
              \o when(rs["check_return_value"], check_return_value(s, n))
    IN  walk(enter(emit(s, ds)), n, 1)

visit_while_statement(s) ==
    LET n == s.pos
        s1 == emit(s, when(s.rule_set["fixed_loop_bounds"], check_while_loop_bounds(s, n)))
    IN  walk(enter(s1), n, 1)

(***************************************************************************)
(* The walk.  The next node is visited when it is a child of the node on   *)
(* top of the stack; otherwise the handler on top of the stack is done     *)
(* with its children.                                                      *)
(***************************************************************************)
HasNext(s) ==
    /\ s.pos <= Len(s.tree)
    /\ s.tree[s.pos].depth = Len(s.stack)

NextKind(s) == IF HasNext(s) THEN s.tree[s.pos].kind ELSE None

Returning(s) == ~HasNext(s) /\ s.stack # <<>>

TopKind(s) == IF Returning(s) THEN s.tree[s.stack[Len(s.stack)].node].kind ELSE None

WalksLeft(s) == IF Returning(s) THEN s.stack[Len(s.stack)].walks ELSE 0

\* the run is over: visit_translation_unit has returned to main
Done(s) == ~HasNext(s) /\ s.stack = <<>>

\* one step of the run
Step(s) ==
    CASE NextKind(s) = "TranslationUnit"    -> visit_translation_unit(s)
      [] NextKind(s) = "FunctionDefinition" -> visit_function_definition(s)
      [] NextKind(s) = "Declaration"        -> visit_declaration(s)
      [] NextKind(s) = "Statement"          -> visit_statement(s)
      [] NextKind(s) = "WhileStatement"     -> visit_while_statement(s)
      [] NextKind(s) = "CallExpression"     -> visit_call_expression(s)
      [] NextKind(s) = "CastExpression"     -> visit_cast_expression(s)
      [] NextKind(s) = "Expression"         -> visit_expression(s)
      [] WalksLeft(s) > 1                     -> walk_declaration_again(s)
      [] TopKind(s) = "FunctionDefinition"  -> return_function_definition(s)
      [] TopKind(s) = "CastExpression"      -> return_cast_expression(s)
      [] OTHER                                -> return(s)

\* the whole run of the analyzer with rule set rs over the tree ast
RECURSIVE RunFrom(_)
RunFrom(s) == IF Done(s) THEN s ELSE RunFrom(Step(s))

Run(rs, ast) == RunFrom(new(rs, ast))

(***************************************************************************)
(* The state machine.                                                      *)
(***************************************************************************)
Cur == [rule_set |-> rule_set, symbol_table |-> symbol_table,
        current_function_type_cast |-> current_function_type_cast,
        current_function |-> current_function, tree |-> tree, stack |-> stack,
        pos |-> pos, visited |-> visited, diags |-> diags]

Becomes(s) ==
    /\ rule_set' = s.rule_set
    /\ symbol_table' = s.symbol_table
    /\ current_function_type_cast' = s.current_function_type_cast
    /\ current_function' = s.current_function
    /\ tree' = s.tree
    /\ stack' = s.stack
    /\ pos' = s.pos
    /\ visited' = s.visited
    /\ diags' = s.diags

VisitTranslationUnit ==
    NextKind(Cur) = "TranslationUnit" /\ Becomes(visit_translation_unit(Cur))

VisitFunctionDefinition ==
    NextKind(Cur) = "FunctionDefinition" /\ Becomes(visit_function_definition(Cur))

VisitDeclaration ==
    NextKind(Cur) = "Declaration" /\ Becomes(visit_declaration(Cur))

VisitStatement ==
    NextKind(Cur) = "Statement" /\ Becomes(visit_statement(Cur))

VisitWhileStatement ==
    NextKind(Cur) = "WhileStatement" /\ Becomes(visit_while_statement(Cur))

VisitCallExpression ==
    NextKind(Cur) = "CallExpression" /\ Becomes(visit_call_expression(Cur))

VisitCastExpression ==
    NextKind(Cur) = "CastExpression" /\ Becomes(visit_cast_expression(Cur))

VisitExpression ==
    NextKind(Cur) = "Expression" /\ Becomes(visit_expression(Cur))

WalkDeclarationAgain ==
    WalksLeft(Cur) > 1 /\ Becomes(walk_declaration_again(Cur))

ReturnFunctionDefinition ==
    /\ WalksLeft(Cur) = 1
    /\ TopKind(Cur) = "FunctionDefinition"
    /\ Becomes(return_function_definition(Cur))

ReturnCastExpression ==
    /\ WalksLeft(Cur) = 1
    /\ TopKind(Cur) = "CastExpression"
    /\ Becomes(return_cast_expression(Cur))

Return ==
    /\ WalksLeft(Cur) = 1
    /\ TopKind(Cur) \notin {"FunctionDefinition", "CastExpression"}
    /\ Becomes(return(Cur))

Next ==
    \/ VisitTranslationUnit
    \/ VisitFunctionDefinition
    \/ VisitDeclaration
    \/ VisitStatement
    \/ VisitWhileStatement
    \/ VisitCallExpression
    \/ VisitCastExpression
    \/ VisitExpression
    \/ WalkDeclarationAgain
    \/ ReturnFunctionDefinition
    \/ ReturnCastExpression
    \/ Return

(***************************************************************************)
(* The inputs of the model: the trees lang_c's parser gives for programs   *)
(* of at most MaxItems of the external declarations below, and the rule    *)
(* sets a ruleset.toml can hold in which at most one rule is disabled or   *)
(* at most one is enabled.  A type name of the parser has a specifier, so  *)
(* no cast of the model has an empty specifier list.                       *)
(***************************************************************************)
DeclF == Declarator("Identifier", "f", <<"Function">>)       \* f(void)
DeclFKR == Declarator("Identifier", "f", <<"KRFunction">>)   \* f()
DeclG == Declarator("Identifier", "g", <<"Function">>)       \* g(void)
DeclX == Declarator("Identifier", "x", <<>>)                 \* x
DeclFp == Declarator("Declarator", None, <<"Function">>)     \* (*fp(void))(void)

While1 == WhileStatement([NoCond EXCEPT !.kind = "Constant"])

At(d, node) == [node EXCEPT !.depth = d]

Call(d, name) == At(d, CallExpression("Identifier", name))

Items == {
    \* int f(void) { f(); }
    <<At(1, FunctionDefinition(<<"Int">>, DeclF, 60)), Call(2, "f")>>,
    \* int f(void) { g(); }
    <<At(1, FunctionDefinition(<<"Int">>, DeclF, 60)), Call(2, "g")>>,
    \* int g(void) { f(); }, on 61 lines
    <<At(1, FunctionDefinition(<<"Int">>, DeclG, 61)), Call(2, "f")>>,
    \* void f(void) { f(); }
    <<At(1, FunctionDefinition(<<"Void">>, DeclF, 60)), Call(2, "f")>>,
    \* static int f(void) { f(); }
    <<At(1, FunctionDefinition(<<"Static", "Int">>, DeclF, 60)), Call(2, "f")>>,
    \* int (*fp(void))(void) { f(); }
    <<At(1, FunctionDefinition(<<"Int">>, DeclFp, 60)), Call(2, "f")>>,
    \* int f();
    <<At(1, Declaration(<<"Int">>, <<DeclFKR>>))>>,
    \* void f();
    <<At(1, Declaration(<<"Void">>, <<DeclFKR>>))>>,
    \* int f(void);
    <<At(1, Declaration(<<"Int">>, <<DeclF>>))>>,
    \* int x = f();
    <<At(1, Declaration(<<"Int">>, <<DeclX>>)), Call(2, "f")>>,
    \* enum { A = sizeof(malloc(1)), B = sizeof(free(0)) };
    <<At(1, Declaration(<<"Enum">>, <<>>)), Call(2, "malloc"), Call(2, "free")>>,
    \* int f(void) { enum { A = sizeof(f()) }; }
    <<At(1, FunctionDefinition(<<"Int">>, DeclF, 60)),
      At(2, Declaration(<<"Enum">>, <<>>)), Call(3, "f")>>,
    \* int f(void) { (int)((char)0 + f()); }
    <<At(1, FunctionDefinition(<<"Int">>, DeclF, 60)),
      At(2, CastExpression(<<"Int">>)), At(3, CastExpression(<<"Char">>)), Call(3, "f")>>,
    \* int f(void) { (void)f(); (const int)f(); }
    <<At(1, FunctionDefinition(<<"Int">>, DeclF, 60)),
      At(2, CastExpression(<<"Void">>)), Call(3, "f"),
      At(2, CastExpression(<<"Const", "Int">>)), Call(3, "f")>>,
    \* void g(void) { while (1) { } while (i < 10) { } while (i == g()) { } }
    <<At(1, FunctionDefinition(<<"Void">>, DeclG, 60)),
      At(2, While1),
      At(2, WhileStatement(BinaryOperator("Less", "Identifier", "Constant"))),
      At(2, WhileStatement(BinaryOperator("Equals", "Identifier", "Call"))), Call(3, "g")>>,
    \* void g(void) { while (1 != i) { } goto out; setjmp(b); (*fp)(longjmp(b, 1)); }
    <<At(1, FunctionDefinition(<<"Void">>, DeclG, 60)),
      At(2, WhileStatement(BinaryOperator("NotEquals", "Constant", "Identifier"))),
      At(2, Statement("Goto")),
      At(2, Statement("Expression")), Call(3, "setjmp"),
      At(2, Expression), At(3, CallExpression("Other", None)), Call(4, "longjmp")>>,
    \* enum { A = ({ while (1) { } 0; }) };
    <<At(1, Declaration(<<"Enum">>, <<>>)), At(2, Statement("Compound")), At(3, While1)>>
    }

RECURSIVE ProgramsUpTo(_)
ProgramsUpTo(k) ==
    IF k = 0 THEN {<<TranslationUnit>>}
    ELSE LET ps == ProgramsUpTo(k - 1) IN ps \cup {p \o i : p \in ps, i \in Items}

Trees == ProgramsUpTo(MaxItems)

RuleSets ==
    {rs \in RuleSet : \/ Cardinality({r \in Rules : rs[r]}) <= 1
                      \/ Cardinality({r \in Rules : ~rs[r]}) <= 1}

Starts(s) ==
    /\ rule_set = s.rule_set
    /\ symbol_table = s.symbol_table
    /\ current_function_type_cast = s.current_function_type_cast
    /\ current_function = s.current_function
    /\ tree = s.tree
    /\ stack = s.stack
    /\ pos = s.pos
    /\ visited = s.visited
    /\ diags = s.diags

Init ==
    \E rs \in RuleSets, ast \in Trees : Starts(new(rs, ast))

Spec == Init /\ [][Next]_vars

(***************************************************************************)
(* What the claims speak of.                                               *)
(***************************************************************************)
Nodes == DOMAIN tree

Enabled(rule) == rule_set[rule]

Count(seq, e) == Cardinality({i \in DOMAIN seq : seq[i] = e})

\* how often the run printed rule's diagnostic for node n
DiagCount(n, rule) == Count(diags, Diag(n, rule))

\* the diagnostics a step prints
Emitted == SubSeq(diags', Len(diags) + 1, Len(diags'))

Calls == {n \in Nodes : tree[n].kind = "CallExpression"}

\* calls whose callee is a bare identifier
NamedCalls == {n \in Calls : tree[n].callee.kind = "Identifier"}

CastAncestors(n) == {a \in Ancestors(tree, n) : tree[a].kind = "CastExpression"}

Inside(kind) == \E i \in DOMAIN stack : tree[stack[i].node].kind = kind

\* a function definition whose declarator is a plain identifier
IsNamedDefinition(n) ==
    /\ tree[n].kind = "FunctionDefinition"
    /\ tree[n].declarators[1].kind = "Identifier"

\* a plain function declaration, with a parameter list of one of the forms
IsPrototype(n, forms) ==
    /\ tree[n].kind = "Declaration"
    /\ tree[n].declarators # <<>>
    /\ tree[n].declarators[1].kind = "Identifier"
    /\ tree[n].declarators[1].derived # <<>>
    /\ tree[n].declarators[1].derived[1] \in forms

DeclaredName(n) == tree[n].declarators[1].name

\* the declared return type as the symbol table takes it: the single type
\* specifier, and void for any other specifier list
DeclaredType(n) ==
    IF Len(tree[n].specifiers) = 1 /\ tree[n].specifiers[1] \in TypeSpecifiers
    THEN tree[n].specifiers[1] ELSE "Void"

Max(S) == CHOOSE m \in S : \A k \in S : k <= m

\* The node of the most recent visit that registered name, 0 when there was
\* none: function definitions register, and with the return-value rule
\* enabled the prototypes of the given forms do.
LastRegistration(name, forms) ==
    LET I == {i \in DOMAIN visited :
                 /\ \/ IsNamedDefinition(visited[i])
                    \/ Enabled("check_return_value") /\ IsPrototype(visited[i], forms)
                 /\ DeclaredName(visited[i]) = name}
    IN  IF I = {} THEN 0 ELSE visited[Max(I)]

Names == {tree[n].callee.name : n \in NamedCalls}
         \cup {DeclaredName(n) : n \in {m \in Nodes : tree[m].declarators # <<>>}}

\* the table holds, for every name, what its most recent registration gave
TableIsLastRegistration(forms) ==
    \A name \in Names :
        LET r == LastRegistration(name, forms) IN
        IF r = 0 THEN name \notin DOMAIN symbol_table
        ELSE /\ name \in DOMAIN symbol_table
             /\ symbol_table[name] = Symbol(name, DeclaredType(r))

(***************************************************************************)
(* The claims.                                                             *)
(***************************************************************************)

\* C1: with the return-value rule enabled, a visit of a call whose callee is a
\* bare identifier that resolves in the symbol table to a function with a
\* non-void return type prints exactly one return-value diagnostic when no
\* cast expression is among the call's ancestors, and none when a cast
\* expression is anywhere among them, also when another cast nested in that
\* cast was entered and left before the call.
C1_CastAncestorHandlesCall ==
    [][(/\ NextKind(Cur) = "CallExpression"
        /\ Enabled("check_return_value")
        /\ pos \in NamedCalls
        /\ tree[pos].callee.name \in DOMAIN symbol_table
        /\ symbol_table[tree[pos].callee.name].symbol_type.return_type # "Void")
       => Count(Emitted, Diag(pos, "check_return_value"))
            = IF CastAncestors(pos) = {} THEN 1 ELSE 0]_vars

\* C2: every node of the tree is visited exactly once in a run, for every rule
\* set: never twice, and none is left out when the run is over.
C2_EveryNodeVisitedOnce ==
    /\ \A n \in Nodes : Count(visited, n) <= 1
    /\ Done(Cur) => \A n \in Nodes : Count(visited, n) = 1

\* C3: with the return-value rule enabled, every plain function declaration
\* visited registers its name and return type, whatever the form of its
\* parameter list: f(), f(void) or typed parameters.
C3_EveryPrototypeRegisters ==
    Enabled("check_return_value") => TableIsLastRegistration({"KRFunction", "Function"})

\* the place of a rule among the checks of visit_call_expression
CallRuleRank(rule) ==
    CASE rule = "restrict_recursion"       -> 1
      [] rule = "restrict_setjmp"          -> 2
      [] rule = "restrict_longjmp"         -> 3
      [] rule = "restrict_heap_allocation" -> 4
      [] rule = "check_return_value"       -> 5
      [] OTHER                             -> 0

\* C4: diagnostics are printed in pre-order: of two diagnostics the earlier
\* belongs to a node that comes no later in the pre-order, those of one node
\* come in the order of its checks (recursion, setjmp, longjmp, heap,
\* return-value), and a finding of a node and a rule is printed once.
C4_DiagnosticsInPreOrder ==
    \A i, j \in DOMAIN diags :
        i < j => /\ diags[i].node <= diags[j].node
                 /\ diags[i].node = diags[j].node
                      => CallRuleRank(diags[i].rule) < CallRuleRank(diags[j].rule)

\* the named function definition a node lies in, 0 when it lies in none
EnclosingDefinition(n) ==
    LET A == {a \in Ancestors(tree, n) : IsNamedDefinition(a)}
    IN  IF A = {} THEN 0 ELSE Max(A)

\* C5: with the recursion rule enabled, a call has exactly one recursion
\* diagnostic when its callee is a bare identifier equal to the name of the
\* function definition it lies in, and none otherwise.
C5_RecursionOncePerDirectCall ==
    (Done(Cur) /\ Enabled("restrict_recursion")) =>
        \A n \in Calls :
            DiagCount(n, "restrict_recursion")
              = IF /\ n \in NamedCalls
                   /\ EnclosingDefinition(n) # 0
                   /\ DeclaredName(EnclosingDefinition(n)) = tree[n].callee.name
                THEN 1 ELSE 0

\* a condition the fixed-loop-bounds rule accepts
IsBoundedCondition(e) ==
    /\ e.kind = "BinaryOperator"
    /\ e.operator \in {"Less", "LessOrEqual", "Greater", "GreaterOrEqual", "Equals"}
    /\ "Constant" \in {e.lhs, e.rhs}

\* C6: with the fixed-loop-bounds rule enabled, a while statement has no
\* diagnostic when its condition is a comparison <, <=, >, >=, == with a
\* literal constant on a side, and exactly one in every other case.
C6_OneLoopDiagnosticPerUnboundedWhile ==
    (Done(Cur) /\ Enabled("fixed_loop_bounds")) =>
        \A n \in {m \in Nodes : tree[m].kind = "WhileStatement"} :
            DiagCount(n, "fixed_loop_bounds")
              = IF IsBoundedCondition(tree[n].cond) THEN 0 ELSE 1

\* C7: the symbol table is last-write-wins.  In every state it holds for each
\* name the return type of the most recently visited registration of the name
\* (a function definition, or a declaration the builder registers); a visit of
\* a call that no cast encloses prints a return-value diagnostic exactly when
\* that registration is non-void, so none after int then void; and the lookup
\* of a call leaves the table as it is.
C7_LastWriteWins ==
    /\ [](TableIsLastRegistration({"KRFunction"}))
    /\ [][NextKind(Cur) = "CallExpression" =>
            /\ symbol_table' = symbol_table
            /\ (Enabled("check_return_value") /\ pos \in NamedCalls /\ CastAncestors(pos) = {})
                 => LET r == LastRegistration(tree[pos].callee.name, {"KRFunction"}) IN
                    Count(Emitted, Diag(pos, "check_return_value"))
                      = IF r # 0 /\ DeclaredType(r) # "Void" THEN 1 ELSE 0]_vars

\* C7's case: a name registered int and then void, and after both a call of
\* it that no cast encloses was visited, with no return-value diagnostic.
C7_Witness ==
    /\ Enabled("check_return_value")
    /\ \E i, j, k \in DOMAIN visited :
        /\ i < j /\ j < k
        /\ IsNamedDefinition(visited[i]) \/ IsPrototype(visited[i], {"KRFunction"})
        /\ IsNamedDefinition(visited[j]) \/ IsPrototype(visited[j], {"KRFunction"})
        /\ DeclaredName(visited[i]) = DeclaredName(visited[j])
        /\ DeclaredType(visited[i]) = "Int"
        /\ DeclaredType(visited[j]) = "Void"
        /\ LastRegistration(DeclaredName(visited[j]), {"KRFunction"}) = visited[j]
        /\ visited[k] \in NamedCalls
        /\ tree[visited[k]].callee.name = DeclaredName(visited[j])
        /\ CastAncestors(visited[k]) = {}
        /\ DiagCount(visited[k], "check_return_value") = 0
        /\ symbol_table[DeclaredName(visited[j])].symbol_type.return_type = "Void"

\* C8: in every state of the walk, for every rule set, current_function is
\* unset when the walk is not inside a function definition and the active cast
\* type is unset when it is not inside a cast expression; both are unset when
\* the run is over.
C8_TraversalStateUnsetOutsideScope ==
    /\ ~Inside("FunctionDefinition") => current_function = None
    /\ ~Inside("CastExpression") => current_function_type_cast = None
    /\ Done(Cur) => current_function = None /\ current_function_type_cast = None

\* C8's case: the run is over after the walk, with the recursion rule
\* enabled, was inside a named function definition and a cast with a type.
C8_Witness ==
    /\ Done(Cur)
    /\ Enabled("restrict_recursion")
    /\ \E i, j \in DOMAIN visited :
        /\ IsNamedDefinition(visited[i])
        /\ tree[visited[j]].kind = "CastExpression"
        /\ tree[visited[j]].specifiers[1] \in TypeSpecifiers

\* C9: with the return-value rule enabled, a call of f that no cast encloses
\* has no return-value diagnostic when no definition or declaration of f
\* comes before it, and exactly one when a definition of f, all of whose
\* definitions and declarations are non-void, comes before it or encloses it.
C9_ResolvedAgainstEarlierRegistrations ==
    (Done(Cur) /\ Enabled("check_return_value")) =>
        \A n \in {m \in NamedCalls : CastAncestors(m) = {}} :
            LET decls == {d \in Nodes : /\ tree[d].declarators # <<>>
                                        /\ DeclaredName(d) = tree[n].callee.name}
            IN  /\ (\A d \in decls : d > n)
                     => DiagCount(n, "check_return_value") = 0
                /\ (/\ \E d \in decls : d < n /\ IsNamedDefinition(d)
                    /\ \A d \in decls : DeclaredType(d) # "Void")
                     => DiagCount(n, "check_return_value") = 1

Flip(rs, rule) == [rs EXCEPT ![rule] = ~@]

RECURSIVE Of(_, _)
Of(rule, ds) ==
    IF ds = <<>> THEN <<>>
    ELSE (IF Head(ds).rule = rule THEN <<Head(ds)>> ELSE <<>>) \o Of(rule, Tail(ds))

\* C10: rules are independent.  A run with rule R disabled prints no R
\* diagnostic, and the run over the same tree with any one other toggle
\* changed prints the same sequence of R diagnostics.
C10_RulesIndependent ==
    Done(Cur) =>
        \A R \in Rules :
            /\ ~Enabled(R) => Of(R, diags) = <<>>
            /\ \A other \in Rules \ {R} :
                 Of(R, Run(Flip(rule_set, other), tree).diags) = Of(R, diags)

====
